---- MODULE Spec2Model ----
(***************************************************************************)
(* A model of digi_leap/pylib/string_align.cpp: levenshtein,               *)
(* levenshtein_all and align_all.                                          *)
(*                                                                         *)
(* A std::u32string is a sequence of codepoints (integers).  Indices r, c, *)
(* s and k keep the code's 0-based values; a read x[i] of the code is      *)
(* x[i + 1] here.  The float scores are modelled by integers: every score  *)
(* the model builds is a small integer, which float arithmetic represents  *)
(* and adds exactly.                                                       *)
(***************************************************************************)
EXTENDS Integers, Sequences, FiniteSets, TLC

VARIABLES
    pc,           \* the position of the running call
    strings,      \* align_all / levenshtein_all: the argument `strings`
    weight,       \* align_all: the substitution matrix (key -> score)
    gap,          \* align_all: the gap open penalty
    skew,         \* align_all: the gap extension penalty
    results,      \* align_all: the running alignment; levenshtein_all: the tuples
    s,            \* align_all: index of the string being folded in
    trace,        \* align_all: the TraceMatrix of the current round
    r,            \* align_all: trace-back row; levenshtein_all: outer index
    c,            \* align_all: trace-back column; levenshtein_all: inner index
    new_string,   \* align_all: the new row, built in reverse
    new_results,  \* align_all: the rebuilt rows, built in reverse
    returned,     \* the value returned to the caller (NoValue before that)
    str1,         \* levenshtein: first argument
    str2,         \* levenshtein: second argument
    dist,         \* levenshtein(str1, str2)
    dist_swapped  \* levenshtein(str2, str1)

vars == <<pc, strings, weight, gap, skew, results, s, trace, r, c,
          new_string, new_results, returned, str1, str2, dist, dist_swapped>>

-----------------------------------------------------------------------------
(* Bounds of the model.                                                    *)

\* levenshtein: the longest argument.
MaxLen == 3
\* levenshtein_all: the longest string and the longest list.
MaxRankLen == 2
MaxRankStrings == 4
\* align_all: the longest list and the largest total length of its strings.
MaxStrings == 3
MaxTotal == 3

-----------------------------------------------------------------------------
(* Constants of the program.                                               *)

\* U'⋄' (U+22C4).
gap_char == 8900

\* Stands for std::numeric_limits<float>::lowest(): below every score, and
\* absorbing under the addition of any score of the model (see FloatAdd).
FloatLowest == -1000000

\* The letters the inputs are drawn from: 'A' and 'C' (and 'G' in Fixture).
Alphabet == {65, 67}

NoValue == <<"no value">>

-----------------------------------------------------------------------------
(* Helpers.                                                                *)

Min(x, y) == IF x < y THEN x ELSE y
Max(x, y) == IF x > y THEN x ELSE y

\* float addition on the model's values: lowest() + x rounds to lowest().
FloatAdd(x, y) == IF x = FloatLowest \/ y = FloatLowest THEN FloatLowest ELSE x + y

SeqsUpTo(S, n) == UNION {[1..k -> S] : k \in 0..n}

RECURSIVE Reverse(_)
Reverse(str) ==
    IF str = <<>> THEN <<>> ELSE Append(Reverse(Tail(str)), Head(str))

-----------------------------------------------------------------------------
(* levenshtein                                                             *)

\* The inner loop from column c on, for row r: the rolling row dist (a
\* function on 0..len2) and prev_dist.
RECURSIVE LevCols(_, _, _, _, _, _)
LevCols(d, prev_dist, a, b, row, col) ==
    IF col >= Len(b) THEN d
    ELSE LET cost == IF a[row + 1] = b[col + 1] THEN 0 ELSE 1
             v == Min(prev_dist + cost, Min(d[col] + 1, d[col + 1] + 1))
         IN  LevCols([d EXCEPT ![col + 1] = v], d[col + 1], a, b, row, col + 1)

\* The outer loop from row r on: prev_dist starts at r.
RECURSIVE LevRows(_, _, _, _)
LevRows(d, a, b, row) ==
    IF row >= Len(a) THEN d
    ELSE LevRows(LevCols(d, row, a, b, row, 0), a, b, row + 1)

levenshtein(a, b) ==
    IF Len(a) = 0 THEN Len(b)
    ELSE IF Len(b) = 0 THEN Len(a)
    ELSE LevRows([i \in 0..Len(b) |-> i], a, b, 0)[Len(b)]

-----------------------------------------------------------------------------
(* levenshtein_all                                                         *)

\* Mutant of TupleLess: a comparator that is no strict order.
TupleLessOrEqual(t1, t2) == t1[1] <= t2[1]

\* The comparator handed to std::stable_sort: by distance only.
TupleLess(t1, t2) == t1[1] < t2[1]

\* t put into the sorted sequence sq behind every element that is not greater.
RECURSIVE InsertStable(_, _)
InsertStable(sq, t) ==
    IF sq = <<>> THEN <<t>>
    ELSE IF TupleLess(t, Head(sq)) THEN <<t>> \o sq
    ELSE <<Head(sq)>> \o InsertStable(Tail(sq), t)

RECURSIVE SortInto(_, _)
SortInto(sorted, rest) ==
    IF rest = <<>> THEN sorted
    ELSE SortInto(InsertStable(sorted, Head(rest)), Tail(rest))

\* std::stable_sort: ordered by the comparator, equivalent elements in their
\* original order.
StableSort(sq) == SortInto(<<>>, sq)

-----------------------------------------------------------------------------
(* align_all: the trace matrix                                             *)

\* Trace(): val(0.0), up(0.0), left(0.0), dir(none).
DefaultTrace == [val |-> 0, up |-> 0, left |-> 0, dir |-> "none"]

\* TraceMatrix trace(rows + 1, std::vector<Trace>(cols + 1)).
NewTraceMatrix(rows, cols) == [p \in (0..rows) \X (0..cols) |-> DefaultTrace]

\* Mutant of FirstColumnCell: with the direction of the first row's cells.
FirstColumnCellLeft(g) == [val |-> g, up |-> g, left |-> g, dir |-> "left"]

\* A cell trace[r][0], r >= 1.
FirstColumnCell(g) == [val |-> g, up |-> g, left |-> g, dir |-> "up"]

\* A cell trace[0][c], c >= 1.
FirstRowCell(g) == [val |-> g, up |-> g, left |-> g, dir |-> "left"]

RECURSIVE InitFirstColumn(_, _, _, _, _)
InitFirstColumn(tr, rows, row, g, sk) ==
    IF row > rows THEN tr
    ELSE InitFirstColumn([tr EXCEPT ![<<row, 0>>] = FirstColumnCell(g)],
                         rows, row + 1, g + sk, sk)

RECURSIVE InitFirstRow(_, _, _, _, _)
InitFirstRow(tr, cols, col, g, sk) ==
    IF col > cols THEN tr
    ELSE InitFirstRow([tr EXCEPT ![<<0, col>>] = FirstRowCell(g)],
                      cols, col + 1, g + sk, sk)

\* Mutant of Key: the pair as it comes, without the swap.
KeyUnordered(results_char, strings_char) == <<results_char, strings_char>>

\* The key looked up for a pair: the two codepoints, the smaller first.
Key(results_char, strings_char) ==
    IF results_char > strings_char
    THEN <<strings_char, results_char>>
    ELSE <<results_char, strings_char>>

\* The loop over the rows k.. of the alignment for cell (row, .): the best
\* substitution score of strings_char against the non-gap characters of
\* column row - 1, or the key that weight.at() did not find.
RECURSIVE BestDiagonal(_, _, _, _, _, _)
BestDiagonal(res, w, row, strings_char, k, diagonal) ==
    IF k >= Len(res) THEN [ok |-> TRUE, value |-> diagonal]
    ELSE LET results_char == res[k + 1][row]
             key == Key(results_char, strings_char)
         IN  IF results_char = gap_char
             THEN BestDiagonal(res, w, row, strings_char, k + 1, diagonal)
             ELSE IF key \notin DOMAIN w
             THEN [ok |-> FALSE, key |-> key]
             ELSE BestDiagonal(res, w, row, strings_char, k + 1,
                               IF w[key] > diagonal THEN w[key] ELSE diagonal)

\* Mutant of GapScore: the worse of the two instead of the better.
GapScoreMin(prev_gap, prev_val, g, sk) == Min(prev_gap + sk, prev_val + g)

\* cell.up and cell.left: extend the gap of the neighbour, or open one.
GapScore(prev_gap, prev_val, g, sk) == Max(prev_gap + sk, prev_val + g)

\* The direction of a cell from its value.
Direction(val, diagonal, up) ==
    IF val = diagonal THEN "diag"
    ELSE IF val = up THEN "up"
    ELSE "left"

\* The interior cell (row, col), given the best substitution score.
InteriorCell(tr, row, col, best, g, sk) ==
    LET cell_up   == tr[<<row - 1, col>>]
        cell_left == tr[<<row, col - 1>>]
        up        == GapScore(cell_up.up, cell_up.val, g, sk)
        left      == GapScore(cell_left.left, cell_left.val, g, sk)
        diagonal  == FloatAdd(best, tr[<<row - 1, col - 1>>].val)
        val       == Max(diagonal, Max(up, left))
    IN  [val |-> val, up |-> up, left |-> left, dir |-> Direction(val, diagonal, up)]

\* The two loops over the interior cells, from cell (row, col) on, row by
\* row.  The first missing key ends them.
RECURSIVE FillFrom(_, _, _, _, _, _, _, _)
FillFrom(tr, res, str, w, g, sk, row, col) ==
    IF row > Len(res[1]) THEN [ok |-> TRUE, trace |-> tr]
    ELSE IF col > Len(str) THEN FillFrom(tr, res, str, w, g, sk, row + 1, 1)
    ELSE LET best == BestDiagonal(res, w, row, str[col], 0, FloatLowest)
         IN  IF ~best.ok THEN [ok |-> FALSE, key |-> best.key]
             ELSE FillFrom([tr EXCEPT ![<<row, col>>] =
                                InteriorCell(tr, row, col, best.value, g, sk)],
                           res, str, w, g, sk, row, col + 1)

\* "Build the matrix" for the alignment res and the new string str.
BuildMatrix(res, str, w, g, sk) ==
    LET rows == Len(res[1])
        cols == Len(str)
        t0   == NewTraceMatrix(rows, cols)
        t1   == InitFirstColumn(t0, rows, 1, g, sk)
        t2   == InitFirstRow(t1, cols, 1, g, sk)
    IN  FillFrom(t2, res, str, w, g, sk, 1, 1)

-----------------------------------------------------------------------------
(* align_all: the trace-back                                               *)

\* Mutant of AppendRows: the gap character instead of the row's character.
AppendRowsAsGaps(rebuilt, res, row) ==
    [k \in 1..Len(res) |-> Append(rebuilt[k], gap_char)]

\* new_results[k] += results[k][r-1], for every k.
AppendRows(rebuilt, res, row) ==
    [k \in 1..Len(res) |-> Append(rebuilt[k], res[k][row])]

\* Mutant of AppendGaps: the loop starts at the second row.
AppendGapsFromSecond(rebuilt, res) ==
    [k \in 1..Len(res) |-> IF k = 1 THEN rebuilt[k] ELSE Append(rebuilt[k], gap_char)]

\* new_results[k] += gap_char, for every k.
AppendGaps(rebuilt, res) ==
    [k \in 1..Len(res) |-> Append(rebuilt[k], gap_char)]

\* Mutant of ReverseAll: the rows pushed without the reversal.
ReverseAllForgotten(rebuilt) == rebuilt

\* results.clear(), then every string of new_results reversed and pushed.
ReverseAll(rebuilt) == [k \in 1..Len(rebuilt) |-> Reverse(rebuilt[k])]

-----------------------------------------------------------------------------
(* The inputs.                                                             *)

\* The characters of align_all's input strings: the letters, and the gap
\* character itself, which nothing keeps out of an input.
InputChars == Alphabet \cup {gap_char}

\* The lists of n strings of at most total characters altogether.
RECURSIVE StringLists(_, _)
StringLists(n, total) ==
    IF n = 0 THEN {<<>>}
    ELSE UNION {{<<str>> \o rest : rest \in StringLists(n - 1, total - Len(str))} :
                str \in SeqsUpTo(InputChars, total)}

\* Substitution matrices: every pair of letters under its ascending key;
\* the same rewarding a match; the pair of unlike letters under its
\* descending key only; and one that also scores the gap character.
WeightFull    == (<<65, 65>> :> 0) @@ (<<67, 67>> :> 0) @@ (<<65, 67>> :> -1)
WeightReward  == (<<65, 65>> :> 2) @@ (<<67, 67>> :> 2) @@ (<<65, 67>> :> -1)
WeightReverse == (<<65, 65>> :> 0) @@ (<<67, 67>> :> 0) @@ (<<67, 65>> :> -1)
WeightGaps    == WeightFull @@ (<<65, gap_char>> :> -1) @@ (<<67, gap_char>> :> -1)
                     @@ (<<gap_char, gap_char>> :> 0)
Weights == {WeightFull, WeightReward, WeightReverse, WeightGaps}

\* <<gap, skew>>: penalties, no cost, and rewards (the code takes any sign).
Penalties == {<<-2, -1>>, <<0, 0>>, <<1, 1>>}

\* The scenario ["AC", "AGC"] with all cross pairs at -1, gap -2, skew -1.
FixtureStrings == << <<65, 67>>, <<65, 71, 67>> >>
FixtureWeight ==
    (<<65, 65>> :> 0) @@ (<<67, 67>> :> 0) @@ (<<71, 71>> :> 0) @@
    (<<65, 67>> :> -1) @@ (<<65, 71>> :> -1) @@ (<<67, 71>> :> -1)

AlignIdle ==
    /\ weight = <<>> /\ gap = 0 /\ skew = 0 /\ s = 0 /\ trace = <<>>
    /\ new_string = <<>> /\ new_results = <<>>

LevIdle == str1 = <<>> /\ str2 = <<>> /\ dist = NoValue /\ dist_swapped = NoValue

alignVars == <<weight, gap, skew, s, trace, new_string, new_results>>
levVars == <<str1, str2, dist, dist_swapped>>

-----------------------------------------------------------------------------
(* levenshtein: a call, and the call with the arguments swapped.           *)

InitLev ==
    /\ pc = "lev_start"
    /\ str1 \in SeqsUpTo(Alphabet \cup {71}, MaxLen)
    /\ str2 \in SeqsUpTo(Alphabet \cup {71}, MaxLen)
    /\ dist = NoValue /\ dist_swapped = NoValue
    /\ strings = <<>> /\ results = <<>> /\ r = 0 /\ c = 0 /\ returned = NoValue
    /\ AlignIdle

LevCall ==
    /\ pc = "lev_start"
    /\ dist' = levenshtein(str1, str2)
    /\ pc' = "lev_called"
    /\ UNCHANGED <<str1, str2, dist_swapped, strings, results, r, c, returned>>
    /\ UNCHANGED alignVars

LevCallSwapped ==
    /\ pc = "lev_called"
    /\ dist_swapped' = levenshtein(str2, str1)
    /\ pc' = "lev_done"
    /\ UNCHANGED <<str1, str2, dist, strings, results, r, c, returned>>
    /\ UNCHANGED alignVars

NextLev == LevCall \/ LevCallSwapped

SpecLev == InitLev /\ [][NextLev]_vars

-----------------------------------------------------------------------------
(* levenshtein_all                                                         *)

InitRank ==
    /\ pc = "rank_start"
    /\ strings \in UNION {[1..n -> SeqsUpTo({65}, MaxRankLen)] : n \in 0..MaxRankStrings}
    /\ results = <<>> /\ r = 0 /\ c = 0 /\ returned = NoValue
    /\ AlignIdle /\ LevIdle

\* const long len = strings.size(); results; the loops' first indices.
RankCall ==
    /\ pc = "rank_start"
    /\ results' = <<>>
    /\ r' = 0
    /\ c' = 1
    /\ pc' = "rank_loop"
    /\ UNCHANGED <<strings, returned>>
    /\ UNCHANGED alignVars /\ UNCHANGED levVars

\* One pass of the inner loop's body, and the step to the next pair.
RankPush ==
    /\ pc = "rank_loop"
    /\ r < Len(strings) - 1
    /\ results' = Append(results,
                         <<levenshtein(strings[r + 1], strings[c + 1]), r, c>>)
    /\ IF c + 1 < Len(strings)
       THEN r' = r /\ c' = c + 1
       ELSE r' = r + 1 /\ c' = r + 2
    /\ UNCHANGED <<pc, strings, returned>>
    /\ UNCHANGED alignVars /\ UNCHANGED levVars

\* The loops are over: std::stable_sort and return.
RankSortReturn ==
    /\ pc = "rank_loop"
    /\ ~(r < Len(strings) - 1)
    /\ results' = StableSort(results)
    /\ returned' = results'
    /\ pc' = "rank_done"
    /\ UNCHANGED <<strings, r, c>>
    /\ UNCHANGED alignVars /\ UNCHANGED levVars

NextRank == RankCall \/ RankPush \/ RankSortReturn

SpecRank == InitRank /\ [][NextRank]_vars

-----------------------------------------------------------------------------
(* align_all                                                               *)

Init ==
    /\ pc = "align_start"
    /\ \/ /\ strings \in UNION {StringLists(n, MaxTotal) : n \in 0..MaxStrings}
          /\ weight \in Weights
          /\ \E p \in Penalties : gap = p[1] /\ skew = p[2]
       \/ /\ strings = FixtureStrings
          /\ weight = FixtureWeight
          /\ gap = -2 /\ skew = -1
    /\ results = <<>> /\ s = 0 /\ trace = <<>> /\ r = 0 /\ c = 0
    /\ new_string = <<>> /\ new_results = <<>> /\ returned = NoValue
    /\ LevIdle

\* The check of the argument, and results.push_back(strings[0]).
AlignCall ==
    /\ pc = "align_start"
    /\ IF Len(strings) < 1
       THEN pc' = "invalid_argument" /\ UNCHANGED <<results, s>>
       ELSE pc' = "align_loop" /\ results' = <<strings[1]>> /\ s' = 1
    /\ UNCHANGED <<strings, weight, gap, skew, trace, r, c, new_string,
                   new_results, returned>>
    /\ UNCHANGED levVars

\* A round begins: the matrix is built (or a key is missing and the call
\* throws), and the trace-back starts at (rows, cols).
AlignBuild ==
    /\ pc = "align_loop"
    /\ s < Len(strings)
    /\ LET built == BuildMatrix(results, strings[s + 1], weight, gap, skew)
       IN  IF built.ok
           THEN /\ pc' = "align_trace"
                /\ trace' = built.trace
                /\ r' = Len(results[1])
                /\ c' = Len(strings[s + 1])
                /\ new_string' = <<>>
                /\ new_results' = [k \in 1..Len(results) |-> <<>>]
           ELSE /\ pc' = "missing_score"
                /\ UNCHANGED <<trace, r, c, new_string, new_results>>
    /\ UNCHANGED <<strings, weight, gap, skew, results, s, returned>>
    /\ UNCHANGED levVars

AlignTraceDiag ==
    /\ pc = "align_trace"
    /\ trace[<<r, c>>].dir = "diag"
    /\ new_results' = AppendRows(new_results, results, r)
    /\ new_string' = Append(new_string, strings[s + 1][c])
    /\ r' = r - 1
    /\ c' = c - 1
    /\ UNCHANGED <<pc, strings, weight, gap, skew, results, s, trace, returned>>
    /\ UNCHANGED levVars

AlignTraceUp ==
    /\ pc = "align_trace"
    /\ trace[<<r, c>>].dir = "up"
    /\ new_results' = AppendRows(new_results, results, r)
    /\ new_string' = Append(new_string, gap_char)
    /\ r' = r - 1
    /\ UNCHANGED <<pc, strings, weight, gap, skew, results, s, trace, c, returned>>
    /\ UNCHANGED levVars

AlignTraceLeft ==
    /\ pc = "align_trace"
    /\ trace[<<r, c>>].dir = "left"
    /\ new_results' = AppendGaps(new_results, results)
    /\ new_string' = Append(new_string, strings[s + 1][c])
    /\ c' = c - 1
    /\ UNCHANGED <<pc, strings, weight, gap, skew, results, s, trace, r, returned>>
    /\ UNCHANGED levVars

\* The trace-back breaks; the rebuilt rows, reversed, replace the alignment
\* and the round's locals go out of scope.
AlignEndRound ==
    /\ pc = "align_trace"
    /\ trace[<<r, c>>].dir = "none"
    /\ results' = ReverseAll(Append(new_results, new_string))
    /\ s' = s + 1
    /\ pc' = "align_loop"
    /\ trace' = <<>> /\ r' = 0 /\ c' = 0
    /\ new_string' = <<>> /\ new_results' = <<>>
    /\ UNCHANGED <<strings, weight, gap, skew, returned>>
    /\ UNCHANGED levVars

AlignReturn ==
    /\ pc = "align_loop"
    /\ ~(s < Len(strings))
    /\ returned' = results
    /\ pc' = "align_done"
    /\ UNCHANGED <<strings, weight, gap, skew, results, s, trace, r, c,
                   new_string, new_results>>
    /\ UNCHANGED levVars

Next ==
    \/ AlignCall
    \/ AlignBuild
    \/ AlignTraceDiag
    \/ AlignTraceUp
    \/ AlignTraceLeft
    \/ AlignEndRound
    \/ AlignReturn

Spec == Init /\ [][Next]_vars

-----------------------------------------------------------------------------
(* What the claims speak of.                                               *)

RowsEqualLength(rows) ==
    \A i, j \in 1..Len(rows) : Len(rows[i]) = Len(rows[j])

HasGap(str) == \E i \in 1..Len(str) : str[i] = gap_char

NoGapInputs == \A i \in 1..Len(strings) : ~HasGap(strings[i])

\* Every column of the alignment holds a character that is no gap.
ColumnsCovered(rows) ==
    \A col \in 1..Len(rows[1]) : \E k \in 1..Len(rows) : rows[k][col] # gap_char

\* A row without its gap characters.
Degap(str) == SelectSeq(str, LAMBDA x : x # gap_char)

\* The two codepoints in ascending order.
CanonicalKey(x, y) == <<Min(x, y), Max(x, y)>>

\* The alignment exists: the first row is established.
Aligning == pc \in {"align_loop", "align_trace", "missing_score", "align_done"}

IsFixture ==
    /\ strings = FixtureStrings /\ weight = FixtureWeight
    /\ gap = -2 /\ skew = -1

\* The unit-cost edit distance, by its defining recurrence.
RECURSIVE EditDistance(_, _)
EditDistance(a, b) ==
    IF a = <<>> THEN Len(b)
    ELSE IF b = <<>> THEN Len(a)
    ELSE Min(EditDistance(Tail(a), Tail(b)) + (IF Head(a) = Head(b) THEN 0 ELSE 1),
             Min(EditDistance(Tail(a), b) + 1, EditDistance(a, Tail(b)) + 1))

-----------------------------------------------------------------------------
(* C1: once the first row is established and after every fold-in round,    *)
(* all rows of the alignment have the same length and there is one row per *)
(* string folded in so far; the returned list has one row per input        *)
(* string, all of one length.                                              *)
C1_RowsEqualLength ==
    /\ Aligning => RowsEqualLength(results) /\ Len(results) = s
    /\ pc = "align_trace" =>
          /\ Len(new_results) = Len(results)
          /\ \A k \in 1..Len(new_results) : Len(new_results[k]) = Len(new_string)
    /\ pc = "align_done" =>
          RowsEqualLength(returned) /\ Len(returned) = Len(strings)

\* Three strings of different lengths were aligned, with gaps put in.
C1_Witness ==
    /\ pc = "align_done"
    /\ Len(returned) = 3
    /\ Len(strings[1]) # Len(strings[2])
    /\ Len(returned[1]) > Len(strings[1])
    /\ Len(returned[3]) > Len(strings[3])

(* C2: for inputs without the gap character, after every fold-in round and *)
(* in the returned alignment every column has a row holding a non-gap      *)
(* character, and so every interior cell's best substitution score is      *)
(* taken over at least one row.                                            *)
C2_ColumnsCovered ==
    NoGapInputs =>
        /\ Aligning => ColumnsCovered(results)
        /\ pc = "align_done" => ColumnsCovered(returned)
        /\ pc = "align_trace" =>
              \A row \in 1..Len(results[1]) : \A col \in 1..Len(strings[s + 1]) :
                  LET best == BestDiagonal(results, weight, row,
                                           strings[s + 1][col], 0, FloatLowest)
                  IN  best.ok /\ best.value # FloatLowest

\* A third string is being folded into an alignment that has a gap.
C2_Witness ==
    /\ NoGapInputs
    /\ pc = "align_trace"
    /\ s = 2
    /\ \E k \in 1..2 : HasGap(results[k])
    /\ Len(strings[3]) >= 1

(* C3: a pair of a non-gap alignment character and a character of the new  *)
(* string whose ascending-ordered key is absent from the matrix makes the   *)
(* call throw: the matrix is built only when every such key is present     *)
(* (whether or not the descending key is), a call that threw returns       *)
(* nothing and does nothing more, and no returned alignment holds two      *)
(* non-gap characters in a column whose ascending key is absent.           *)
C3_MissingScoreAborts ==
    /\ pc = "align_trace" =>
          \A row \in 1..Len(results[1]) : \A col \in 1..Len(strings[s + 1]) :
              \A k \in 1..Len(results) :
                  results[k][row] # gap_char =>
                      CanonicalKey(results[k][row], strings[s + 1][col])
                          \in DOMAIN weight
    /\ pc = "missing_score" =>
          /\ returned = NoValue
          /\ ~ENABLED Next
          /\ \E row \in 1..Len(results[1]) : \E col \in 1..Len(strings[s + 1]) :
                \E k \in 1..Len(results) :
                    /\ results[k][row] # gap_char
                    /\ CanonicalKey(results[k][row], strings[s + 1][col])
                           \notin DOMAIN weight
    /\ pc = "align_done" =>
          \A col \in 1..Len(returned[1]) : \A k, j \in 1..Len(returned) :
              (k < j /\ returned[k][col] # gap_char /\ returned[j][col] # gap_char)
                  => CanonicalKey(returned[k][col], returned[j][col])
                         \in DOMAIN weight

\* The call threw over the pair of 'A' and 'C', which the matrix holds under
\* its descending key only.
C3_Witness ==
    /\ pc = "missing_score"
    /\ NoGapInputs
    /\ <<67, 65>> \in DOMAIN weight
    /\ <<65, 67>> \notin DOMAIN weight

(* C4: levenshtein(a, b) is the unit-cost edit distance of a and b.        *)
C4_IsEditDistance ==
    pc \in {"lev_called", "lev_done"} => dist = EditDistance(str1, str2)

(* C5: levenshtein(a, b) = levenshtein(b, a).                              *)
C5_Symmetric ==
    pc = "lev_done" => dist = dist_swapped

(* C6: levenshtein(a, b) = max(len(a), len(b)) when no character of a      *)
(* equals a character of b.                                                *)
C6_DisjointIsMaxLength ==
    (/\ pc = "lev_called"
     /\ \A i \in 1..Len(str1) : \A j \in 1..Len(str2) : str1[i] # str2[j])
        => dist = Max(Len(str1), Len(str2))

(* C7: levenshtein_all returns n(n-1)/2 tuples, one for each pair i < j    *)
(* with the pair's levenshtein distance, in non-decreasing order of        *)
(* distance, equal distances in row-major order of (i, j).                 *)
C7_RankedPairs ==
    pc = "rank_done" =>
        LET n == Len(strings)
            m == Len(returned)
        IN  /\ 2 * m = n * (n - 1)
            /\ \A i, j \in 0..(n - 1) :
                   i < j => Cardinality({p \in 1..m : returned[p][2] = i
                                                      /\ returned[p][3] = j}) = 1
            /\ \A p \in 1..m :
                   /\ 0 <= returned[p][2]
                   /\ returned[p][2] < returned[p][3]
                   /\ returned[p][3] < n
                   /\ returned[p][1] = levenshtein(strings[returned[p][2] + 1],
                                                   strings[returned[p][3] + 1])
            /\ \A p, q \in 1..m :
                   p < q =>
                       \/ returned[p][1] < returned[q][1]
                       \/ /\ returned[p][1] = returned[q][1]
                          /\ \/ returned[p][2] < returned[q][2]
                             \/ /\ returned[p][2] = returned[q][2]
                                /\ returned[p][3] < returned[q][3]

\* Four strings; the sort moved a pair forward, and left equal distances
\* in the order they were pushed.
C7_Witness ==
    /\ pc = "rank_done"
    /\ Len(strings) = 4
    /\ \E p \in 1..5 :
           /\ returned[p][1] < returned[p + 1][1]
           /\ <<returned[p][2], returned[p][3]>> = <<2, 3>>
    /\ \E p \in 1..5 : returned[p][1] = returned[p + 1][1]

(* C8: ["AC", "AGC"] with matches at 0, all cross pairs at -1, gap -2 and  *)
(* skew -1 is aligned, without a throw, to ["A⋄C", "AGC"].                 *)
C8_Fixture ==
    IsFixture =>
        /\ pc # "missing_score"
        /\ pc = "align_trace" =>
              /\ trace[<<2, 3>>].dir = "diag" /\ trace[<<2, 3>>].val = -2
              /\ trace[<<1, 2>>].dir = "left" /\ trace[<<1, 2>>].val = -2
              /\ trace[<<1, 1>>].dir = "diag" /\ trace[<<1, 1>>].val = 0
        /\ pc = "align_done" =>
              returned = << <<65, gap_char, 67>>, <<65, 71, 67>> >>

C8_Witness == IsFixture /\ pc = "align_done" /\ Len(returned[1]) = 3

(* C9: in every round the trace-back ends at (0,0): that cell alone has    *)
(* direction none, the cells (r,0) have up, the cells (0,c) left, the      *)
(* interior cells diag, up or left; r and c stay within the matrix, no     *)
(* step reads position r-1 or c-1 at r = 0 or c = 0, a step can always be  *)
(* taken, and the steps taken (one character of new_string each) number at *)
(* most R + C.                                                             *)
C9_TracebackEnds ==
    pc = "align_trace" =>
        LET rows == Len(results[1])
            cols == Len(strings[s + 1])
        IN  /\ DOMAIN trace = (0..rows) \X (0..cols)
            /\ \A p \in DOMAIN trace :
                   IF p = <<0, 0>> THEN trace[p].dir = "none"
                   ELSE IF p[2] = 0 THEN trace[p].dir = "up"
                   ELSE IF p[1] = 0 THEN trace[p].dir = "left"
                   ELSE trace[p].dir \in {"diag", "up", "left"}
            /\ r \in 0..rows
            /\ c \in 0..cols
            /\ trace[<<r, c>>].dir \in {"diag", "up"} => r >= 1
            /\ trace[<<r, c>>].dir \in {"diag", "left"} => c >= 1
            /\ Len(new_string) <= (rows - r) + (cols - c)
            /\ Len(new_string) <= rows + cols
            /\ ENABLED Next

\* A walk of R + C steps, R and C positive, has reached (0,0).
C9_Witness ==
    /\ pc = "align_trace"
    /\ r = 0 /\ c = 0
    /\ Len(results[1]) >= 1 /\ Len(strings[s + 1]) >= 1
    /\ Len(new_string) = Len(results[1]) + Len(strings[s + 1])

(* C10: for inputs without the gap character, after every fold-in round    *)
(* and in the returned alignment, row k without its gap characters is      *)
(* strings[k]; a single input string is returned as it is.                 *)
C10_RowsKeepTheirStrings ==
    /\ (NoGapInputs /\ Aligning) =>
          \A k \in 1..Len(results) : Degap(results[k]) = strings[k]
    /\ (NoGapInputs /\ pc = "align_done") =>
          \A k \in 1..Len(strings) : Degap(returned[k]) = strings[k]
    /\ (pc = "align_done" /\ Len(strings) = 1) => returned = strings

\* Three strings were aligned and the first two rows took gaps.
C10_Witness ==
    /\ NoGapInputs
    /\ pc = "align_done"
    /\ Len(strings) = 3
    /\ returned[1] # strings[1]
    /\ returned[2] # strings[2]
    /\ Len(strings[1]) >= 1

====
